---- MODULE Spec2Model ----
(***************************************************************************)
(* Model of tsFIFO::FIFO<T, action_if_full> (src/FIFO.hpp): a queue        *)
(* guarded by one std::mutex, with one std::condition_variable on which    *)
(* the two pull() overloads wait while the queue is empty.                 *)
(*                                                                         *)
(* Every public member function takes the mutex on entry (std::unique_lock)*)
(* and gives it back on return; the model has one step for the entry and   *)
(* one for the body run under the mutex.  The two pull() overloads have    *)
(* further steps for the wait on the condition variable: suspended (mutex  *)
(* released), woken or expired (mutex not yet re-acquired).                *)
(*                                                                         *)
(* Items are the tags <<idx_producer, value>> of the ITEMs made in          *)
(* src/test_functional_FIFO.cpp.                                            *)
(*                                                                         *)
(* tsFIFO::sFIFO<T, TimeT, action_if_full> (src/sFIFO.hpp), the class      *)
(* derived from FIFO that measures the queue by the sum of the items'      *)
(* get_size_seconds(), is modelled after FIFO: the same steps where FIFO's *)
(* code calls no hook, steps of their own where it calls an overridden one.*)
(***************************************************************************)
EXTENDS Integers, Sequences, FiniteSets, TLC

(* ------------------------------ bounds --------------------------------- *)
MaxItems == 3
MaxCapacity == 2

Threads == {1, 2}

\* the sizes given to FIFO(int size) and set_max_size(): positive ones
Capacities == 1..MaxCapacity

(* ---------------------------- enumerations ----------------------------- *)
ActionIfFull == {"Nothing", "DumpFirstEntry"}
Status == {"ERROR", "SUCCESS", "FULL", "TIMEOUT"}

NoThread == 0
NoItem == <<0, 0>>
NoValue == "NONE"
NoReturn == [thread |-> NoThread, op |-> NoValue, value |-> NoValue, item |-> NoItem]

VARIABLES
    queue,          \* _queue: the resident items, oldest first
    max_size,       \* _max_size
    action_if_full, \* the template argument action_if_full
    mutex,          \* _mutex: the thread that holds it, or NoThread
    condv,          \* _condv: the threads suspended in wait()/wait_for()
    pc,             \* per thread: where it is in the member function it runs
    item,           \* per thread: the T& item it passes to push()
    returned,       \* the return that has just happened, NoReturn otherwise
    inserted,       \* history: the arguments of push_last(), in order
    delivered,      \* history: the items a pull() assigned to its T& item
    rejected,       \* history: items a push() refused under Nothing
    dumped,         \* history: items popped by push() or dropped by clear()
    deleted,        \* history: items given to clear_helper(T*)
    dynamic_type,   \* the class of the object: "FIFO" or "sFIFO"
    size_seconds,   \* sFIFO::_size_seconds (0 in a FIFO, which has none)
    max_size_seconds, \* sFIFO::_max_size_seconds (0 in a FIFO)
    seconds,        \* per item: what its get_size_seconds() returns
    timeout,        \* the argument timeout of the pull(T&, unsigned) last called
    waited,         \* the time its wait_for() has been suspended
    suspended       \* the time it has been suspended since it was called

vars == <<queue, max_size, action_if_full, mutex, condv, pc, item,
          returned, inserted, delivered, rejected, dumped, deleted,
          dynamic_type, size_seconds, max_size_seconds, seconds,
          timeout, waited, suspended>>

shared == <<queue, max_size, inserted, delivered, rejected, dumped, deleted>>

\* what sFIFO adds to FIFO, and the sizes of the items: no member function
\* of FIFO run on a FIFO touches them
weighted == <<dynamic_type, size_seconds, max_size_seconds, seconds>>

\* the time of a timed pull: it is left at 0 wherever the time a wait_for()
\* takes is left open (it may time out at any moment)
clock == <<timeout, waited, suspended>>

(* ------------------------- protected helpers --------------------------- *)
\* size_t is modelled with SizeTBits bits; an int operand of a comparison
\* with a size_t is converted to size_t (modulo 2^SizeTBits).
SizeTBits == 16
ToSizeT(n) == n % (2 ^ SizeTBits)

\* mutant: full only beyond the limit
is_full_helper_gt(q, m) == Len(q) > ToSizeT(m)

\* FIFO::is_full_helper: _queue.size() >= _max_size
is_full_helper(q, m) == Len(q) >= ToSizeT(m)

\* mutant: takes the newest item
pull_pop_first_newest(q) == [item |-> q[Len(q)], queue |-> SubSeq(q, 1, Len(q) - 1)]

\* mutant: returns the front item and leaves it in the queue
pull_pop_first_keep(q) == [item |-> Head(q), queue |-> q]

\* FIFO::pull_pop_first: the front item, and the queue without it
pull_pop_first(q) == [item |-> Head(q), queue |-> Tail(q)]

\* mutant: the item goes to the front
push_last_front(q, it) == <<it>> \o q

\* FIFO::push_last: the queue with the item at the back
push_last(q, it) == Append(q, it)

\* the for loop of FIFO::clear: i counts up while the queue shrinks
RECURSIVE clear_loop(_, _, _)
clear_loop(q, i, del) ==
    IF i < Len(q)
    THEN clear_loop(pull_pop_first(q).queue, i + 1, del \cup {pull_pop_first(q).item})
    ELSE [queue |-> q, deleted |-> del]

Range(s) == {s[i] : i \in 1..Len(s)}

\* the items made so far: every one was inserted or is still with its maker
Made == (Range(inserted) \cup {item[t] : t \in DOMAIN item}) \ {NoItem}
MadeBy(t) == {it \in Made : it[1] = t}

\* the items main() can make
AllItems == {<<0, k>> : k \in 1..MaxItems}

\* new ITEM("id", value), as in main(): idx_producer 0, a fresh value
NextItem == <<0, Cardinality(Made) + 1>>

\* new ITEM("id", idx_producer, i), as in producer(): the next item of t
NewItem(t) == <<t, Cardinality(MadeBy(t)) + 1>>

(* ------------------------------- Init ---------------------------------- *)
\* the state after FIFO(int size), for the threads of the set T
InitFor(T, policies) ==
    /\ queue = <<>>
    /\ max_size \in Capacities
    /\ action_if_full \in policies
    /\ mutex = NoThread
    /\ condv = {}
    /\ pc = [t \in T |-> "idle"]
    /\ item = [t \in T |-> NoItem]
    /\ returned = NoReturn
    /\ inserted = <<>>
    /\ delivered = <<>>
    /\ rejected = {}
    /\ dumped = {}
    /\ deleted = {}
    /\ dynamic_type = "FIFO"
    /\ size_seconds = 0
    /\ max_size_seconds = 0
    /\ seconds = [it \in AllItems |-> 0]
    /\ timeout = 0
    /\ waited = 0
    /\ suspended = 0

Init == InitFor(Threads, ActionIfFull)

(* ------------------------- mutex and condv ----------------------------- *)
\* mutant: the member function runs without waiting for the mutex
Enter_unlocked(t, f) ==
    /\ pc[t] = "idle"
    /\ mutex' = t
    /\ pc' = [pc EXCEPT ![t] = f]
    /\ returned' = NoReturn

\* std::unique_lock<std::mutex> _lock(_mutex) on entry of member function f
Enter(t, f) ==
    /\ pc[t] = "idle"
    /\ mutex = NoThread
    /\ mutex' = t
    /\ pc' = [pc EXCEPT ![t] = f]
    /\ returned' = NoReturn

\* return of v from f (NoValue from a void function), with the item a pull
\* assigned: the unique_lock goes out of scope and releases the mutex
Return(t, f, v, it) ==
    /\ mutex' = NoThread
    /\ returned' = [thread |-> t, op |-> f, value |-> v, item |-> it]

\* where a thread suspended in wait()/wait_for() is after it was woken
Woken(p) == IF p = "pull_wait" THEN "pull_woken" ELSE "tpull_woken"

\* mutant: the signal wakes nobody
notify_one_lost(t) ==
    /\ condv' = condv
    /\ pc' = [pc EXCEPT ![t] = "idle"]

\* _condv.notify_one() by thread t, which then returns to "idle"
notify_one(t) ==
    IF condv = {}
    THEN /\ condv' = condv
         /\ pc' = [pc EXCEPT ![t] = "idle"]
    ELSE \E w \in condv :
            /\ condv' = condv \ {w}
            /\ pc' = [pc EXCEPT ![t] = "idle", ![w] = Woken(pc[w])]

(* ------------------------------- push ---------------------------------- *)
\* the caller makes a new item, or passes again the one a push() left to it
PushCall(t) ==
    /\ Enter(t, "push")
    /\ IF item[t] # NoItem
       THEN UNCHANGED item
       ELSE /\ Cardinality(Made) < MaxItems
            /\ item' = [item EXCEPT ![t] = NextItem]
    /\ UNCHANGED <<shared, action_if_full, weighted, clock, condv>>

\* mutant: DumpFirstEntry pushes without the pop
push_full_no_dump(policy, q, it) ==
    IF policy = "Nothing"
    THEN [queue |-> q, item |-> it, dump |-> {}, pushed |-> <<>>]
    ELSE [queue |-> push_last(q, it), item |-> NoItem, dump |-> {}, pushed |-> <<it>>]

\* mutant: the oldest item is dumped under both policies
push_full_dump_always(policy, q, it) ==
    [queue |-> push_last(pull_pop_first(q).queue, it), item |-> NoItem,
     dump |-> {pull_pop_first(q).item}, pushed |-> <<it>>]

\* mutant: Nothing leaves the queue alone but moves from the caller's item
push_full_moves_item(policy, q, it) ==
    IF policy = "Nothing"
    THEN [queue |-> q, item |-> NoItem, dump |-> {}, pushed |-> <<>>]
    ELSE [queue |-> push_last(pull_pop_first(q).queue, it), item |-> NoItem,
          dump |-> {pull_pop_first(q).item}, pushed |-> <<it>>]

\* FIFO::push when is_full_helper() holds: what the policy does with the
\* queue q and the caller's item it (dump: the items popped and dropped)
push_full(policy, q, it) ==
    IF policy = "Nothing"
    THEN [queue |-> q, item |-> it, dump |-> {}, pushed |-> <<>>]
    ELSE [queue |-> push_last(pull_pop_first(q).queue, it), item |-> NoItem,
          dump |-> {pull_pop_first(q).item}, pushed |-> <<it>>]

\* FIFO::push, from the test of is_full_helper() to the return
Push(t) ==
    /\ pc[t] = "push"
    /\ IF is_full_helper(queue, max_size)
       THEN /\ queue' = push_full(action_if_full, queue, item[t]).queue
            /\ item' = [item EXCEPT ![t] = push_full(action_if_full, queue, item[t]).item]
            /\ dumped' = dumped \cup push_full(action_if_full, queue, item[t]).dump
            /\ inserted' = inserted \o push_full(action_if_full, queue, item[t]).pushed
            /\ rejected' = rejected \cup
                   (IF action_if_full = "Nothing" THEN {item[t]} ELSE {})
            /\ pc' = [pc EXCEPT ![t] = "idle"]
            /\ UNCHANGED condv
            /\ Return(t, "push", "FULL", NoItem)
       ELSE /\ queue' = push_last(queue, item[t])
            /\ inserted' = Append(inserted, item[t])
            /\ item' = [item EXCEPT ![t] = NoItem]
            /\ UNCHANGED <<dumped, rejected>>
            /\ notify_one(t)
            /\ Return(t, "push", "SUCCESS", NoItem)
    /\ UNCHANGED <<max_size, action_if_full, weighted, clock, delivered, deleted>>

(* ------------------------------- pull ---------------------------------- *)
PullCall(t) ==
    /\ Enter(t, "pull")
    /\ UNCHANGED <<shared, action_if_full, weighted, clock, condv, item>>

\* mutant: wait() suspends the thread without releasing the mutex
Pull_keeps_lock(t) ==
    /\ pc[t] = "pull"
    /\ IF queue = <<>>
       THEN /\ condv' = condv \cup {t}
            /\ pc' = [pc EXCEPT ![t] = "pull_wait"]
            /\ mutex' = mutex
            /\ returned' = NoReturn
            /\ UNCHANGED <<queue, delivered>>
       ELSE /\ queue' = pull_pop_first(queue).queue
            /\ delivered' = Append(delivered, pull_pop_first(queue).item)
            /\ pc' = [pc EXCEPT ![t] = "idle"]
            /\ UNCHANGED condv
            /\ Return(t, "pull", NoValue, pull_pop_first(queue).item)
    /\ UNCHANGED <<max_size, action_if_full, weighted, clock, item, inserted, rejected, dumped, deleted>>

\* FIFO::pull(T&): one test of the while loop, then wait() or the pop
Pull(t) ==
    /\ pc[t] = "pull"
    /\ IF queue = <<>>
       THEN /\ condv' = condv \cup {t}
            /\ pc' = [pc EXCEPT ![t] = "pull_wait"]
            /\ mutex' = NoThread
            /\ returned' = NoReturn
            /\ UNCHANGED <<queue, delivered>>
       ELSE /\ queue' = pull_pop_first(queue).queue
            /\ delivered' = Append(delivered, pull_pop_first(queue).item)
            /\ pc' = [pc EXCEPT ![t] = "idle"]
            /\ UNCHANGED condv
            /\ Return(t, "pull", NoValue, pull_pop_first(queue).item)
    /\ UNCHANGED <<max_size, action_if_full, weighted, clock, item, inserted, rejected, dumped, deleted>>

\* a step of a suspended or woken thread t to the position p
WaitStep(t, p) ==
    /\ pc' = [pc EXCEPT ![t] = p]
    /\ returned' = NoReturn
    /\ UNCHANGED <<shared, action_if_full, weighted, clock, item>>

\* a spurious wakeup of wait()
PullSpurious(t) ==
    /\ pc[t] = "pull_wait"
    /\ condv' = condv \ {t}
    /\ UNCHANGED mutex
    /\ WaitStep(t, "pull_woken")

\* mutant: after wait() the loop is left without the test of the queue:
\* the front of the queue is taken if there is one
PullReacquire_no_recheck(t) ==
    /\ pc[t] = "pull_woken"
    /\ mutex = NoThread
    /\ pc' = [pc EXCEPT ![t] = "idle"]
    /\ queue' = IF queue = <<>> THEN queue ELSE pull_pop_first(queue).queue
    /\ delivered' = IF queue = <<>> THEN delivered
                    ELSE Append(delivered, pull_pop_first(queue).item)
    /\ Return(t, "pull", NoValue, IF queue = <<>> THEN NoItem ELSE pull_pop_first(queue).item)
    /\ UNCHANGED <<max_size, inserted, rejected, dumped, deleted, action_if_full,
                   weighted, clock, condv, item>>

\* wait() re-acquires the mutex and returns into the while loop
PullReacquire(t) ==
    /\ pc[t] = "pull_woken"
    /\ mutex = NoThread
    /\ mutex' = t
    /\ UNCHANGED condv
    /\ WaitStep(t, "pull")

(* ---------------------------- timed pull ------------------------------- *)
TimedPullCall(t) ==
    /\ Enter(t, "tpull")
    /\ UNCHANGED <<shared, action_if_full, weighted, clock, condv, item>>

\* FIFO::pull(T&, unsigned): one test of the while loop, then wait_for()
\* or the pop
TimedPull(t) ==
    /\ pc[t] = "tpull"
    /\ IF queue = <<>>
       THEN /\ condv' = condv \cup {t}
            /\ pc' = [pc EXCEPT ![t] = "tpull_wait"]
            /\ mutex' = NoThread
            /\ returned' = NoReturn
            /\ UNCHANGED <<queue, delivered>>
       ELSE /\ queue' = pull_pop_first(queue).queue
            /\ delivered' = Append(delivered, pull_pop_first(queue).item)
            /\ pc' = [pc EXCEPT ![t] = "idle"]
            /\ UNCHANGED condv
            /\ Return(t, "tpull", "SUCCESS", pull_pop_first(queue).item)
    /\ UNCHANGED <<max_size, action_if_full, weighted, clock, item, inserted, rejected, dumped, deleted>>

\* a spurious wakeup of wait_for()
TimedPullSpurious(t) ==
    /\ pc[t] = "tpull_wait"
    /\ condv' = condv \ {t}
    /\ UNCHANGED mutex
    /\ WaitStep(t, "tpull_woken")

\* the timeout of wait_for() elapses: while suspended, or after a wakeup
\* and before wait_for() has the mutex again (it reports the timeout then)
TimedPullExpire(t) ==
    /\ pc[t] \in {"tpull_wait", "tpull_woken"}
    /\ condv' = condv \ {t}
    /\ UNCHANGED mutex
    /\ WaitStep(t, "tpull_expired")

\* wait_for() re-acquires the mutex and returns cv_status::no_timeout
TimedPullReacquire(t) ==
    /\ pc[t] = "tpull_woken"
    /\ mutex = NoThread
    /\ mutex' = t
    /\ UNCHANGED condv
    /\ WaitStep(t, "tpull")

\* mutant: the cv_status is ignored, the while loop runs again
TimedPullReacquireExpired_loops(t) ==
    /\ pc[t] = "tpull_expired"
    /\ mutex = NoThread
    /\ mutex' = t
    /\ UNCHANGED condv
    /\ WaitStep(t, "tpull")

\* wait_for() re-acquires the mutex and returns cv_status::timeout
TimedPullReacquireExpired(t) ==
    /\ pc[t] = "tpull_expired"
    /\ mutex = NoThread
    /\ mutex' = t
    /\ UNCHANGED condv
    /\ WaitStep(t, "tpull_timeout")

\* mutant: the timed-out pull pops the front item and drops it
TimedPullTimeout_pops(t, after) ==
    /\ pc[t] = "tpull_timeout"
    /\ pc' = [pc EXCEPT ![t] = after]
    /\ queue' = IF queue = <<>> THEN queue ELSE pull_pop_first(queue).queue
    /\ Return(t, "tpull", "TIMEOUT", NoItem)
    /\ UNCHANGED <<max_size, inserted, delivered, rejected, dumped, deleted,
                   action_if_full, weighted, clock, condv, item>>

\* if(wait_for(...) == cv_status::timeout) return Status::TIMEOUT; the
\* caller goes on at the position after
TimedPullTimeout(t, after) ==
    /\ pc[t] = "tpull_timeout"
    /\ pc' = [pc EXCEPT ![t] = after]
    /\ Return(t, "tpull", "TIMEOUT", NoItem)
    /\ UNCHANGED <<shared, action_if_full, weighted, clock, condv, item>>

(* ------------------------ the other operations ------------------------- *)
SizeCall(t) ==
    /\ Enter(t, "size")
    /\ UNCHANGED <<shared, action_if_full, weighted, clock, condv, item>>

\* mutant: size() returns _size_seconds
Size_seconds(t) ==
    /\ pc[t] = "size"
    /\ pc' = [pc EXCEPT ![t] = "idle"]
    /\ Return(t, "size", size_seconds, NoItem)
    /\ UNCHANGED <<shared, action_if_full, weighted, clock, condv, item>>

\* FIFO::size
Size(t) ==
    /\ pc[t] = "size"
    /\ pc' = [pc EXCEPT ![t] = "idle"]
    /\ Return(t, "size", Len(queue), NoItem)
    /\ UNCHANGED <<shared, action_if_full, weighted, clock, condv, item>>

SetMaxSizeCall(t) ==
    /\ Enter(t, "set_max_size")
    /\ UNCHANGED <<shared, action_if_full, weighted, clock, condv, item>>

\* mutant: set_max_size() pops the items beyond the new size
SetMaxSize_evicts(t, size) ==
    /\ pc[t] = "set_max_size"
    /\ max_size' = size
    /\ queue' = IF Len(queue) > size
                THEN SubSeq(queue, Len(queue) - size + 1, Len(queue))
                ELSE queue
    /\ pc' = [pc EXCEPT ![t] = "idle"]
    /\ Return(t, "set_max_size", NoValue, NoItem)
    /\ UNCHANGED <<inserted, delivered, rejected, dumped, deleted,
                   action_if_full, weighted, clock, condv, item>>

\* FIFO::set_max_size
SetMaxSize(t, size) ==
    /\ pc[t] = "set_max_size"
    /\ max_size' = size
    /\ pc' = [pc EXCEPT ![t] = "idle"]
    /\ Return(t, "set_max_size", NoValue, NoItem)
    /\ UNCHANGED <<queue, inserted, delivered, rejected, dumped, deleted,
                   action_if_full, weighted, clock, condv, item>>

GetMaxSizeCall(t) ==
    /\ Enter(t, "get_max_size")
    /\ UNCHANGED <<shared, action_if_full, weighted, clock, condv, item>>

\* FIFO::get_max_size
GetMaxSize(t) ==
    /\ pc[t] = "get_max_size"
    /\ pc' = [pc EXCEPT ![t] = "idle"]
    /\ Return(t, "get_max_size", max_size, NoItem)
    /\ UNCHANGED <<shared, action_if_full, weighted, clock, condv, item>>

IsFullCall(t) ==
    /\ Enter(t, "is_full")
    /\ UNCHANGED <<shared, action_if_full, weighted, clock, condv, item>>

\* FIFO::is_full
IsFull(t) ==
    /\ pc[t] = "is_full"
    /\ pc' = [pc EXCEPT ![t] = "idle"]
    /\ Return(t, "is_full", is_full_helper(queue, max_size), NoItem)
    /\ UNCHANGED <<shared, action_if_full, weighted, clock, condv, item>>

ClearCall(t) ==
    /\ Enter(t, "clear")
    /\ UNCHANGED <<shared, action_if_full, weighted, clock, condv, item>>

\* mutant: clear() without the swap, the loop alone
Clear_no_swap(t) ==
    /\ pc[t] = "clear"
    /\ queue' = clear_loop(queue, 0, {}).queue
    /\ deleted' = deleted \cup clear_loop(queue, 0, {}).deleted
    /\ dumped' = dumped \cup clear_loop(queue, 0, {}).deleted
    /\ pc' = [pc EXCEPT ![t] = "idle"]
    /\ Return(t, "clear", NoValue, NoItem)
    /\ UNCHANGED <<max_size, inserted, delivered, rejected, action_if_full, weighted, clock,
                   condv, item>>

\* FIFO::clear: the loop pops and clear_helper()s, the swap drops the rest
Clear(t) ==
    /\ pc[t] = "clear"
    /\ queue' = <<>>
    /\ deleted' = deleted \cup clear_loop(queue, 0, {}).deleted
    /\ dumped' = dumped \cup Range(queue)
    /\ pc' = [pc EXCEPT ![t] = "idle"]
    /\ Return(t, "clear", NoValue, NoItem)
    /\ UNCHANGED <<max_size, inserted, delivered, rejected, action_if_full, weighted, clock, condv, item>>

(* ------------------------------- Next ---------------------------------- *)
Next ==
    \E t \in Threads :
        \/ PushCall(t) \/ Push(t)
        \/ PullCall(t) \/ Pull(t) \/ PullSpurious(t) \/ PullReacquire(t)
        \/ TimedPullCall(t) \/ TimedPull(t) \/ TimedPullSpurious(t)
        \/ TimedPullExpire(t) \/ TimedPullReacquire(t)
        \/ TimedPullReacquireExpired(t) \/ TimedPullTimeout(t, "idle")
        \/ SizeCall(t) \/ Size(t)
        \/ SetMaxSizeCall(t) \/ (\E size \in Capacities : SetMaxSize(t, size))
        \/ GetMaxSizeCall(t) \/ GetMaxSize(t)
        \/ IsFullCall(t) \/ IsFull(t)
        \/ ClearCall(t) \/ Clear(t)

Spec == Init /\ [][Next]_vars

(* ------------- the threads of src/test_functional_FIFO.cpp -------------- *)
Npushes == 2

Producers == {1, 2}
Consumers == {3, 4}

\* bigFIFO fifo(100): FIFO<ITEM*, ActionIfFull::Nothing>
TestInit == InitFor(Producers \cup Consumers, {"Nothing"})

\* producer(): a new item for each i < Npushes, pushed until Status::SUCCESS
ProducerPushCall(p) ==
    /\ Enter(p, "push")
    /\ IF item[p] # NoItem
       THEN UNCHANGED item
       ELSE /\ Cardinality(MadeBy(p)) < Npushes
            /\ item' = [item EXCEPT ![p] = NewItem(p)]
    /\ UNCHANGED <<shared, action_if_full, weighted, clock, condv>>

\* consumer(): pull(item, 100) again and again; the break at the first
\* TIMEOUT is the position "left" that TimedPullTimeout returns to
ConsumerPullCall(c) == TimedPullCall(c)

\* the thread has left producer() / consumer()
ProducerDone(p) ==
    pc[p] = "idle" /\ item[p] = NoItem /\ Cardinality(MadeBy(p)) = Npushes
ConsumerDone(c) == pc[c] = "left"

\* main() has joined every thread
AllJoined ==
    (\A p \in Producers : ProducerDone(p)) /\ (\A c \in Consumers : ConsumerDone(c))

TestNext ==
    \/ \E p \in Producers : ProducerPushCall(p) \/ Push(p)
    \/ \E c \in Consumers :
        \/ ConsumerPullCall(c) \/ TimedPull(c) \/ TimedPullSpurious(c)
        \/ TimedPullExpire(c) \/ TimedPullReacquire(c)
        \/ TimedPullReacquireExpired(c) \/ TimedPullTimeout(c, "left")

TestSpec == TestInit /\ [][TestNext]_vars

(* ------------- one consumer, one producer, fair scheduling ------------- *)
TheConsumer == 1
TheProducer == 2

LiveNext ==
    \/ PullCall(TheConsumer) \/ Pull(TheConsumer)
    \/ PullSpurious(TheConsumer) \/ PullReacquire(TheConsumer)
    \/ TimedPullCall(TheConsumer) \/ TimedPull(TheConsumer)
    \/ TimedPullSpurious(TheConsumer) \/ TimedPullExpire(TheConsumer)
    \/ TimedPullReacquire(TheConsumer)
    \/ TimedPullReacquireExpired(TheConsumer)
    \/ TimedPullTimeout(TheConsumer, "idle")
    \/ PushCall(TheProducer) \/ Push(TheProducer)

\* a thread that holds the mutex runs on to its return or its wait; a
\* thread that needs the mutex gets it if it is free again and again; the
\* timeout of a wait_for() elapses, spurious wakeups do not pre-empt it
\* for ever.  Nothing makes a thread call anything.
LiveFairness ==
    /\ WF_vars(Push(TheProducer))
    /\ WF_vars(Pull(TheConsumer))
    /\ WF_vars(TimedPull(TheConsumer))
    /\ WF_vars(TimedPullTimeout(TheConsumer, "idle"))
    /\ SF_vars(PullReacquire(TheConsumer))
    /\ SF_vars(TimedPullReacquire(TheConsumer))
    /\ SF_vars(TimedPullReacquireExpired(TheConsumer))
    /\ SF_vars(TimedPullExpire(TheConsumer))

LiveSpec == Init /\ [][LiveNext]_vars /\ LiveFairness

(* ================== sFIFO<T, TimeT, action_if_full> ==================== *)
(* src/sFIFO.hpp: the class derived from FIFO overrides pull_pop_first,    *)
(* push_last and is_full_helper, hides clear and adds three accessors.     *)
(* Everything else is the code of FIFO, run with the overriding hooks.     *)
(* ======================================================================= *)
MaxItemSeconds == 2
MaxSeconds == 2

\* what get_size_seconds() of an item can return
ItemSeconds == 1..MaxItemSeconds

\* the sizes given to sFIFO(TimeT size_seconds) and set_max_size_seconds()
SecondsCapacities == 1..MaxSeconds

\* item->get_size_seconds()
get_size_seconds(it) == seconds[it]

\* the items of the set S have left the queue: nothing asks for their
\* sizes any more, which are forgotten
Forget(S) == [it \in DOMAIN seconds |-> IF it \in S THEN 0 ELSE seconds[it]]

\* mutant: full only beyond the limit
sFIFO_is_full_helper_gt(ss, mss) == ss > mss

\* mutant: the number of items is compared with the limit
sFIFO_is_full_helper_count(ss, mss) == Len(queue) >= mss

\* sFIFO::is_full_helper: _size_seconds >= _max_size_seconds
sFIFO_is_full_helper(ss, mss) == ss >= mss

\* mutant: the size of the popped item stays in _size_seconds
sFIFO_pull_pop_first_drift(q, ss) ==
    [item |-> Head(q), queue |-> Tail(q), size_seconds |-> ss]

\* sFIFO::pull_pop_first: the front item, the queue without it and
\* _size_seconds less the size of the item
sFIFO_pull_pop_first(q, ss) ==
    [item |-> Head(q), queue |-> Tail(q),
     size_seconds |-> ss - get_size_seconds(Head(q))]

\* sFIFO::push_last: _size_seconds plus the size of the item, and the
\* queue with the item at the back
sFIFO_push_last(q, ss, it) ==
    [queue |-> Append(q, it), size_seconds |-> ss + get_size_seconds(it)]

\* the state after sFIFO(TimeT size_seconds), which runs FIFO(): _max_size 0
sFIFO_InitFor(T, policies) ==
    /\ queue = <<>>
    /\ max_size = 0
    /\ action_if_full \in policies
    /\ mutex = NoThread
    /\ condv = {}
    /\ pc = [t \in T |-> "idle"]
    /\ item = [t \in T |-> NoItem]
    /\ returned = NoReturn
    /\ inserted = <<>>
    /\ delivered = <<>>
    /\ rejected = {}
    /\ dumped = {}
    /\ deleted = {}
    /\ dynamic_type = "sFIFO"
    /\ size_seconds = 0
    /\ max_size_seconds \in SecondsCapacities
    /\ seconds = [it \in AllItems |-> 0]
    /\ timeout = 0
    /\ waited = 0
    /\ suspended = 0

sFIFO_Init == sFIFO_InitFor(Threads, ActionIfFull)

\* the caller makes a new item of some size, or passes again the one a
\* push() left to it
sFIFO_PushCall(t) ==
    /\ Enter(t, "push")
    /\ IF item[t] # NoItem
       THEN UNCHANGED <<item, seconds>>
       ELSE /\ Cardinality(Made) < MaxItems
            /\ item' = [item EXCEPT ![t] = NextItem]
            /\ \E s \in ItemSeconds : seconds' = [seconds EXCEPT ![NextItem] = s]
    /\ UNCHANGED <<shared, action_if_full, condv, dynamic_type, clock, size_seconds,
                   max_size_seconds>>

\* FIFO::push when sFIFO::is_full_helper() holds, with the hooks of sFIFO
sFIFO_push_full(policy, q, ss, it) ==
    IF policy = "Nothing"
    THEN [queue |-> q, size_seconds |-> ss, item |-> it, dump |-> {}, pushed |-> <<>>]
    ELSE [queue |-> sFIFO_push_last(sFIFO_pull_pop_first(q, ss).queue,
                                    sFIFO_pull_pop_first(q, ss).size_seconds, it).queue,
          size_seconds |-> sFIFO_push_last(sFIFO_pull_pop_first(q, ss).queue,
                                    sFIFO_pull_pop_first(q, ss).size_seconds, it).size_seconds,
          item |-> NoItem,
          dump |-> {sFIFO_pull_pop_first(q, ss).item},
          pushed |-> <<it>>]

\* FIFO::push run on an sFIFO, from the test of is_full_helper() to the
\* return
sFIFO_Push(t) ==
    /\ pc[t] = "push"
    /\ IF sFIFO_is_full_helper(size_seconds, max_size_seconds)
       THEN /\ queue' = sFIFO_push_full(action_if_full, queue, size_seconds, item[t]).queue
            /\ size_seconds' =
                   sFIFO_push_full(action_if_full, queue, size_seconds, item[t]).size_seconds
            /\ item' = [item EXCEPT ![t] =
                   sFIFO_push_full(action_if_full, queue, size_seconds, item[t]).item]
            /\ dumped' = dumped \cup
                   sFIFO_push_full(action_if_full, queue, size_seconds, item[t]).dump
            /\ inserted' = inserted \o
                   sFIFO_push_full(action_if_full, queue, size_seconds, item[t]).pushed
            /\ rejected' = rejected \cup
                   (IF action_if_full = "Nothing" THEN {item[t]} ELSE {})
            /\ seconds' = Forget(
                   sFIFO_push_full(action_if_full, queue, size_seconds, item[t]).dump)
            /\ pc' = [pc EXCEPT ![t] = "idle"]
            /\ UNCHANGED condv
            /\ Return(t, "push", "FULL", NoItem)
       ELSE /\ queue' = sFIFO_push_last(queue, size_seconds, item[t]).queue
            /\ size_seconds' = sFIFO_push_last(queue, size_seconds, item[t]).size_seconds
            /\ inserted' = Append(inserted, item[t])
            /\ item' = [item EXCEPT ![t] = NoItem]
            /\ UNCHANGED <<dumped, rejected, seconds>>
            /\ notify_one(t)
            /\ Return(t, "push", "SUCCESS", NoItem)
    /\ UNCHANGED <<max_size, action_if_full, delivered, deleted, dynamic_type, clock,
                   max_size_seconds>>

\* FIFO::pull(T&) run on an sFIFO
sFIFO_Pull(t) ==
    /\ pc[t] = "pull"
    /\ IF queue = <<>>
       THEN /\ condv' = condv \cup {t}
            /\ pc' = [pc EXCEPT ![t] = "pull_wait"]
            /\ mutex' = NoThread
            /\ returned' = NoReturn
            /\ UNCHANGED <<queue, size_seconds, delivered, seconds>>
       ELSE /\ queue' = sFIFO_pull_pop_first(queue, size_seconds).queue
            /\ size_seconds' = sFIFO_pull_pop_first(queue, size_seconds).size_seconds
            /\ delivered' = Append(delivered, sFIFO_pull_pop_first(queue, size_seconds).item)
            /\ seconds' = Forget({sFIFO_pull_pop_first(queue, size_seconds).item})
            /\ pc' = [pc EXCEPT ![t] = "idle"]
            /\ UNCHANGED condv
            /\ Return(t, "pull", NoValue, sFIFO_pull_pop_first(queue, size_seconds).item)
    /\ UNCHANGED <<max_size, action_if_full, item, inserted, rejected, dumped,
                   deleted, dynamic_type, clock, max_size_seconds>>

\* FIFO::pull(T&, unsigned) run on an sFIFO
sFIFO_TimedPull(t) ==
    /\ pc[t] = "tpull"
    /\ IF queue = <<>>
       THEN /\ condv' = condv \cup {t}
            /\ pc' = [pc EXCEPT ![t] = "tpull_wait"]
            /\ mutex' = NoThread
            /\ returned' = NoReturn
            /\ UNCHANGED <<queue, size_seconds, delivered, seconds>>
       ELSE /\ queue' = sFIFO_pull_pop_first(queue, size_seconds).queue
            /\ size_seconds' = sFIFO_pull_pop_first(queue, size_seconds).size_seconds
            /\ delivered' = Append(delivered, sFIFO_pull_pop_first(queue, size_seconds).item)
            /\ seconds' = Forget({sFIFO_pull_pop_first(queue, size_seconds).item})
            /\ pc' = [pc EXCEPT ![t] = "idle"]
            /\ UNCHANGED condv
            /\ Return(t, "tpull", "SUCCESS", sFIFO_pull_pop_first(queue, size_seconds).item)
    /\ UNCHANGED <<max_size, action_if_full, item, inserted, rejected, dumped,
                   deleted, dynamic_type, clock, max_size_seconds>>

\* FIFO::is_full run on an sFIFO
sFIFO_IsFull(t) ==
    /\ pc[t] = "is_full"
    /\ pc' = [pc EXCEPT ![t] = "idle"]
    /\ Return(t, "is_full", sFIFO_is_full_helper(size_seconds, max_size_seconds), NoItem)
    /\ UNCHANGED <<shared, action_if_full, weighted, clock, condv, item>>

\* mutant: clear() also puts the limit back to the largest one
sFIFO_Clear_resets_limit(t) ==
    /\ pc[t] = "clear"
    /\ queue' = <<>>
    /\ size_seconds' = 0
    /\ max_size_seconds' = MaxSeconds
    /\ dumped' = dumped \cup Range(queue)
    /\ seconds' = Forget(Range(queue))
    /\ pc' = [pc EXCEPT ![t] = "idle"]
    /\ Return(t, "clear", NoValue, NoItem)
    /\ UNCHANGED <<max_size, inserted, delivered, rejected, deleted, action_if_full,
                   condv, item, dynamic_type, clock>>

\* sFIFO::clear: the swap drops every item (no clear_helper), then
\* _size_seconds = TimeT()
sFIFO_Clear(t) ==
    /\ pc[t] = "clear"
    /\ queue' = <<>>
    /\ size_seconds' = 0
    /\ dumped' = dumped \cup Range(queue)
    /\ seconds' = Forget(Range(queue))
    /\ pc' = [pc EXCEPT ![t] = "idle"]
    /\ Return(t, "clear", NoValue, NoItem)
    /\ UNCHANGED <<max_size, inserted, delivered, rejected, deleted, action_if_full,
                   condv, item, dynamic_type, clock, max_size_seconds>>

SizeSecondsCall(t) ==
    /\ Enter(t, "size_seconds")
    /\ UNCHANGED <<shared, action_if_full, weighted, clock, condv, item>>

\* sFIFO::size_seconds
SizeSeconds(t) ==
    /\ pc[t] = "size_seconds"
    /\ pc' = [pc EXCEPT ![t] = "idle"]
    /\ Return(t, "size_seconds", size_seconds, NoItem)
    /\ UNCHANGED <<shared, action_if_full, weighted, clock, condv, item>>

SetMaxSizeSecondsCall(t) ==
    /\ Enter(t, "set_max_size_seconds")
    /\ UNCHANGED <<shared, action_if_full, weighted, clock, condv, item>>

\* sFIFO::set_max_size_seconds
SetMaxSizeSeconds(t, size) ==
    /\ pc[t] = "set_max_size_seconds"
    /\ max_size_seconds' = size
    /\ pc' = [pc EXCEPT ![t] = "idle"]
    /\ Return(t, "set_max_size_seconds", NoValue, NoItem)
    /\ UNCHANGED <<shared, action_if_full, condv, item, dynamic_type, clock,
                   size_seconds, seconds>>

GetMaxSizeSecondsCall(t) ==
    /\ Enter(t, "get_max_size_seconds")
    /\ UNCHANGED <<shared, action_if_full, weighted, clock, condv, item>>

\* sFIFO::get_max_size_seconds
GetMaxSizeSeconds(t) ==
    /\ pc[t] = "get_max_size_seconds"
    /\ pc' = [pc EXCEPT ![t] = "idle"]
    /\ Return(t, "get_max_size_seconds", max_size_seconds, NoItem)
    /\ UNCHANGED <<shared, action_if_full, weighted, clock, condv, item>>

\* the member functions of an sFIFO: those of FIFO that call no hook are
\* the same steps.  The inherited set_max_size() and get_max_size() are
\* left out: they write and read _max_size, which no hook of sFIFO reads.
sFIFO_Next ==
    \E t \in Threads :
        \/ sFIFO_PushCall(t) \/ sFIFO_Push(t)
        \/ PullCall(t) \/ sFIFO_Pull(t) \/ PullSpurious(t) \/ PullReacquire(t)
        \/ TimedPullCall(t) \/ sFIFO_TimedPull(t) \/ TimedPullSpurious(t)
        \/ TimedPullExpire(t) \/ TimedPullReacquire(t)
        \/ TimedPullReacquireExpired(t) \/ TimedPullTimeout(t, "idle")
        \/ SizeCall(t) \/ Size(t)
        \/ SizeSecondsCall(t) \/ SizeSeconds(t)
        \/ SetMaxSizeSecondsCall(t)
        \/ (\E size \in SecondsCapacities : SetMaxSizeSeconds(t, size))
        \/ GetMaxSizeSecondsCall(t) \/ GetMaxSizeSeconds(t)
        \/ IsFullCall(t) \/ sFIFO_IsFull(t)
        \/ ClearCall(t) \/ sFIFO_Clear(t)

sFIFO_Spec == sFIFO_Init /\ [][sFIFO_Next]_vars

(* -------------------- an object of either class ------------------------ *)
EitherInit == Init \/ sFIFO_Init

EitherNext ==
    \/ dynamic_type = "FIFO" /\ Next
    \/ dynamic_type = "sFIFO" /\ sFIFO_Next

EitherSpec == EitherInit /\ [][EitherNext]_vars


(* ---------- two consumers and one producer, fair scheduling ------------ *)
\* the threads that pull: each calls pull(T&) or pull(T&, unsigned)
PullingThreads == {1, 2}

\* the thread that pushes
PushingThread == 3

ConsumersInit == InitFor(PullingThreads \cup {PushingThread}, ActionIfFull)

ConsumersNext ==
    \/ \E c \in PullingThreads :
        \/ PullCall(c) \/ Pull(c) \/ PullSpurious(c) \/ PullReacquire(c)
        \/ TimedPullCall(c) \/ TimedPull(c) \/ TimedPullSpurious(c)
        \/ TimedPullExpire(c) \/ TimedPullReacquire(c)
        \/ TimedPullReacquireExpired(c) \/ TimedPullTimeout(c, "idle")
    \/ PushCall(PushingThread) \/ Push(PushingThread)

\* as LiveFairness, for every thread: a thread that holds the mutex runs
\* on, a thread that needs the mutex gets it, a timeout elapses.  Nothing
\* makes a thread call anything, and no spurious wakeup has to happen.
ConsumersFairness ==
    /\ WF_vars(Push(PushingThread))
    /\ \A c \in PullingThreads :
          /\ WF_vars(Pull(c))
          /\ WF_vars(TimedPull(c))
          /\ WF_vars(TimedPullTimeout(c, "idle"))
          /\ SF_vars(PullReacquire(c))
          /\ SF_vars(TimedPullReacquire(c))
          /\ SF_vars(TimedPullReacquireExpired(c))
          /\ SF_vars(TimedPullExpire(c))

ConsumersSpec == ConsumersInit /\ [][ConsumersNext]_vars /\ ConsumersFairness


(* ----------------- a timed pull with the time it waits ----------------- *)
MaxTimeout == 2
MaxSuspended == 4

\* the values of the argument timeout of pull(T&, unsigned)
Timeouts == 0..MaxTimeout

\* pull(item, timeout) is called
Clock_TimedPullCall(t) ==
    /\ Enter(t, "tpull")
    /\ timeout' \in Timeouts
    /\ waited' = 0
    /\ suspended' = 0
    /\ UNCHANGED <<shared, action_if_full, weighted, condv, item>>

\* mutant: the timed pull waits before its first test of the queue
Clock_TimedPull_waits_first(t) ==
    /\ pc[t] = "tpull"
    /\ condv' = condv \cup {t}
    /\ pc' = [pc EXCEPT ![t] = "tpull_wait"]
    /\ mutex' = NoThread
    /\ returned' = NoReturn
    /\ waited' = 0
    /\ UNCHANGED <<shared, action_if_full, weighted, item, timeout, suspended>>

\* FIFO::pull(T&, unsigned): one test of the while loop, then the pop, or
\* wait_for(_lock, milliseconds(timeout)), which begins to wait anew
Clock_TimedPull(t) ==
    /\ pc[t] = "tpull"
    /\ IF queue = <<>>
       THEN /\ condv' = condv \cup {t}
            /\ pc' = [pc EXCEPT ![t] = "tpull_wait"]
            /\ mutex' = NoThread
            /\ returned' = NoReturn
            /\ waited' = 0
            /\ UNCHANGED <<queue, delivered>>
       ELSE /\ queue' = pull_pop_first(queue).queue
            /\ delivered' = Append(delivered, pull_pop_first(queue).item)
            /\ pc' = [pc EXCEPT ![t] = "idle"]
            /\ UNCHANGED <<condv, waited>>
            /\ Return(t, "tpull", "SUCCESS", pull_pop_first(queue).item)
    /\ UNCHANGED <<max_size, action_if_full, item, inserted, rejected, dumped,
                   deleted, weighted, timeout, suspended>>

\* a unit of time goes by while t is suspended in wait_for()
Clock_Tick(t) ==
    /\ pc[t] = "tpull_wait"
    /\ waited < timeout
    /\ suspended < MaxSuspended
    /\ waited' = waited + 1
    /\ suspended' = suspended + 1
    /\ returned' = NoReturn
    /\ UNCHANGED <<shared, action_if_full, weighted, mutex, condv, pc, item, timeout>>

\* the timeout of wait_for() elapses: when it has been suspended for the
\* time of the timeout, or after a wakeup before it has the mutex again
Clock_TimedPullExpire(t) ==
    /\ pc[t] = "tpull_wait" => waited = timeout
    /\ TimedPullExpire(t)

\* wait_for() re-acquires the mutex and returns cv_status::no_timeout: it
\* was woken before the time of the timeout was over
Clock_TimedPullReacquire(t) ==
    /\ waited < timeout
    /\ TimedPullReacquire(t)

ClockNext ==
    \/ Clock_TimedPullCall(TheConsumer) \/ Clock_TimedPull(TheConsumer)
    \/ Clock_Tick(TheConsumer)
    \/ TimedPullSpurious(TheConsumer) \/ Clock_TimedPullExpire(TheConsumer)
    \/ Clock_TimedPullReacquire(TheConsumer)
    \/ TimedPullReacquireExpired(TheConsumer)
    \/ TimedPullTimeout(TheConsumer, "idle")
    \/ PushCall(TheProducer) \/ Push(TheProducer)

ClockSpec == Init /\ [][ClockNext]_vars

(* ------------- every int as _max_size: FIFO(), FIFO(int) --------------- *)
\* the values of the int _max_size: negative, 0 as FIFO() leaves it, positive
IntCapacities == {-1, 0} \cup Capacities

\* the state after FIFO() (_max_size 0) or FIFO(int size) with any int
IntCapacityInit ==
    /\ queue = <<>>
    /\ max_size \in IntCapacities
    /\ action_if_full \in ActionIfFull
    /\ mutex = NoThread
    /\ condv = {}
    /\ pc = [t \in Threads |-> "idle"]
    /\ item = [t \in Threads |-> NoItem]
    /\ returned = NoReturn
    /\ inserted = <<>>
    /\ delivered = <<>>
    /\ rejected = {}
    /\ dumped = {}
    /\ deleted = {}
    /\ dynamic_type = "FIFO"
    /\ size_seconds = 0
    /\ max_size_seconds = 0
    /\ seconds = [it \in AllItems |-> 0]
    /\ timeout = 0
    /\ waited = 0
    /\ suspended = 0

\* FIFO::push under DumpFirstEntry finds an empty queue full: front() and
\* pop_front() of an empty std::deque are undefined
PopsEmptyQueue(t) ==
    /\ pc[t] = "push"
    /\ action_if_full = "DumpFirstEntry"
    /\ is_full_helper(queue, max_size)
    /\ queue = <<>>

\* what the build can do then: the process ends in the pop, or the push
\* goes on to push_last and returns FULL, with the item in the queue or
\* lost in the damaged deque
Push_undefined(t) ==
    /\ PopsEmptyQueue(t)
    /\ \/ /\ pc' = [u \in DOMAIN pc |-> "aborted"]
          /\ returned' = NoReturn
          /\ UNCHANGED <<shared, mutex, item>>
       \/ /\ queue' \in {<<>>, push_last(<<>>, item[t])}
          /\ inserted' = Append(inserted, item[t])
          /\ item' = [item EXCEPT ![t] = NoItem]
          /\ pc' = [pc EXCEPT ![t] = "idle"]
          /\ Return(t, "push", "FULL", NoItem)
          /\ UNCHANGED <<max_size, delivered, rejected, dumped, deleted>>
    /\ UNCHANGED <<action_if_full, weighted, clock, condv>>

\* FIFO::push with any int as _max_size
IntCapacity_Push(t) ==
    IF PopsEmptyQueue(t) THEN Push_undefined(t) ELSE Push(t)

IntCapacityNext ==
    \E t \in Threads :
        \/ PushCall(t) \/ IntCapacity_Push(t)
        \/ TimedPullCall(t) \/ TimedPull(t) \/ TimedPullSpurious(t)
        \/ TimedPullExpire(t) \/ TimedPullReacquire(t)
        \/ TimedPullReacquireExpired(t) \/ TimedPullTimeout(t, "idle")
        \/ SetMaxSizeCall(t) \/ (\E size \in IntCapacities : SetMaxSize(t, size))
        \/ IsFullCall(t) \/ IsFull(t)

IntCapacitySpec == IntCapacityInit /\ [][IntCapacityNext]_vars

(* ------- sFIFO() and items of size 0: every non-negative TimeT --------- *)
\* the sizes of items and the limits from TimeT() on
AnyItemSeconds == 0..MaxItemSeconds
AnySecondsCapacities == 0..MaxSeconds

\* the state after sFIFO() (_max_size_seconds TimeT()) or sFIFO(TimeT)
AnySeconds_Init ==
    /\ queue = <<>>
    /\ max_size = 0
    /\ action_if_full \in ActionIfFull
    /\ mutex = NoThread
    /\ condv = {}
    /\ pc = [t \in Threads |-> "idle"]
    /\ item = [t \in Threads |-> NoItem]
    /\ returned = NoReturn
    /\ inserted = <<>>
    /\ delivered = <<>>
    /\ rejected = {}
    /\ dumped = {}
    /\ deleted = {}
    /\ dynamic_type = "sFIFO"
    /\ size_seconds = 0
    /\ max_size_seconds \in AnySecondsCapacities
    /\ seconds = [it \in AllItems |-> 0]
    /\ timeout = 0
    /\ waited = 0
    /\ suspended = 0

\* the caller makes a new item of some size, 0 too, or passes again the
\* one a push() left to it
AnySeconds_PushCall(t) ==
    /\ Enter(t, "push")
    /\ IF item[t] # NoItem
       THEN UNCHANGED <<item, seconds>>
       ELSE /\ Cardinality(Made) < MaxItems
            /\ item' = [item EXCEPT ![t] = NextItem]
            /\ \E s \in AnyItemSeconds : seconds' = [seconds EXCEPT ![NextItem] = s]
    /\ UNCHANGED <<shared, action_if_full, condv, dynamic_type, clock, size_seconds,
                   max_size_seconds>>

\* FIFO::push on an sFIFO under DumpFirstEntry finds an empty queue full:
\* front() and pop() of an empty std::queue are undefined
sFIFO_PopsEmptyQueue(t) ==
    /\ pc[t] = "push"
    /\ action_if_full = "DumpFirstEntry"
    /\ sFIFO_is_full_helper(size_seconds, max_size_seconds)
    /\ queue = <<>>

\* what the build can do then: the process ends in the pop, or
\* get_size_seconds() of what front() gave returns some size g, which is
\* taken from _size_seconds, and the push goes on to push_last and returns
\* FULL, with the item in the queue or lost in the damaged container
sFIFO_Push_undefined(t) ==
    /\ sFIFO_PopsEmptyQueue(t)
    /\ \/ /\ pc' = [u \in DOMAIN pc |-> "aborted"]
          /\ returned' = NoReturn
          /\ UNCHANGED <<shared, mutex, item, size_seconds>>
       \/ /\ queue' \in {<<>>, Append(<<>>, item[t])}
          /\ \E g \in AnyItemSeconds :
                size_seconds' = (size_seconds - g) + get_size_seconds(item[t])
          /\ inserted' = Append(inserted, item[t])
          /\ item' = [item EXCEPT ![t] = NoItem]
          /\ pc' = [pc EXCEPT ![t] = "idle"]
          /\ Return(t, "push", "FULL", NoItem)
          /\ UNCHANGED <<max_size, delivered, rejected, dumped, deleted>>
    /\ UNCHANGED <<action_if_full, condv, dynamic_type, clock, max_size_seconds, seconds>>

\* FIFO::push run on an sFIFO with any limit
AnySeconds_Push(t) ==
    IF sFIFO_PopsEmptyQueue(t) THEN sFIFO_Push_undefined(t) ELSE sFIFO_Push(t)

AnySeconds_Next ==
    \E t \in Threads :
        \/ AnySeconds_PushCall(t) \/ AnySeconds_Push(t)
        \/ TimedPullCall(t) \/ sFIFO_TimedPull(t) \/ TimedPullSpurious(t)
        \/ TimedPullExpire(t) \/ TimedPullReacquire(t)
        \/ TimedPullReacquireExpired(t) \/ TimedPullTimeout(t, "idle")
        \/ SetMaxSizeSecondsCall(t)
        \/ (\E size \in AnySecondsCapacities : SetMaxSizeSeconds(t, size))
        \/ ClearCall(t) \/ sFIFO_Clear(t)

AnySeconds_Spec == AnySeconds_Init /\ [][AnySeconds_Next]_vars

(* ======================================================================= *)
(*                               properties                                *)
(* ======================================================================= *)
Count(x, seq) == Cardinality({i \in 1..Len(seq) : seq[i] = x})
NotDumped(x) == x \notin dumped

\* thread t leaves push() in this step
PushReturns(t) == pc[t] = "push" /\ pc'[t] = "idle"

\* the queue holds at least capacity_limit items
AtCapacity == Len(queue) >= max_size

(* ------------------------------- C1 ------------------------------------ *)
\* C1: the items the pulls returned, in the order of the pulls, followed by
\* the items still resident, are exactly the items inserted, in insertion
\* order, without those removed by eviction or clear.
FifoOrder == SelectSeq(inserted, NotDumped) = delivered \o queue

\* two pulls have returned and an item was evicted or cleared in between
FifoOrderWitness ==
    /\ Len(delivered) >= 2
    /\ dumped # {}
    /\ returned.op \in {"pull", "tpull"}
    /\ returned.item = delivered[Len(delivered)]

PushKeepsCapacityBound ==
    [][\A t \in DOMAIN pc : PushReturns(t) => Len(queue') <= max_size']_vars

\* C3, amended: when a push returns, size() <= capacity_limit or size() is
\* what it was when the push began (push never makes the queue longer than
\* the limit; only set_max_size can leave it longer).
PushNeverGrowsBeyondCapacity ==
    [][\A t \in DOMAIN pc :
          PushReturns(t) =>
              \/ Len(queue') <= max_size'
              \/ Len(queue') = Len(queue)]_vars

\* a push has just returned and the queue is longer than the limit
PushNeverGrowsBeyondCapacityWitness ==
    /\ returned.op = "push"
    /\ returned.value = "FULL"
    /\ Len(queue) > max_size

(* ------------------------------- C4 ------------------------------------ *)
\* C4: a push into a full queue under Nothing returns FULL and changes
\* neither the buffer (contents, order, length) nor the capacity.
RejectChangesNothing ==
    [][\A t \in DOMAIN pc :
          (PushReturns(t) /\ AtCapacity /\ action_if_full = "Nothing") =>
              /\ returned'.value = "FULL"
              /\ queue' = queue
              /\ max_size' = max_size
              /\ inserted' = inserted
              /\ dumped' = dumped]_vars

\* a push has just been refused by a queue holding two items
RejectChangesNothingWitness ==
    /\ action_if_full = "Nothing"
    /\ returned.op = "push"
    /\ returned.value = "FULL"
    /\ Len(queue) = 2

(* ------------------------------- C5 ------------------------------------ *)
\* C5: under Nothing the item of a refused push stays with its caller, who
\* passes it again; the push that finds the queue not full inserts it.
RejectedItemStaysWithCaller ==
    /\ [](\A it \in rejected :
            \/ \E t \in DOMAIN item : item[t] = it /\ Count(it, inserted) = 0
            \/ Count(it, inserted) = 1)
    /\ [][\A t \in DOMAIN pc :
            /\ (PushReturns(t) /\ returned'.value = "FULL" /\ action_if_full = "Nothing")
                  => (item'[t] = item[t] /\ item[t] # NoItem)
            /\ (PushReturns(t) /\ ~AtCapacity)
                  => (queue' = Append(queue, item[t]) /\ item[t] # NoItem)]_vars

\* an item that a push refused was inserted by a later push and pulled
RejectedItemStaysWithCallerWitness ==
    /\ action_if_full = "Nothing"
    /\ \E it \in rejected : it \in Range(delivered)

(* ------------------------------- C6 ------------------------------------ *)
\* C6: a push into a full queue under DumpFirstEntry removes exactly the
\* oldest item, appends the new one at the tail and leaves size() as it
\* was; no pull ever returns an item that was removed.
EvictionRemovesOldest ==
    [][/\ \A t \in DOMAIN pc :
            (PushReturns(t) /\ AtCapacity /\ action_if_full = "DumpFirstEntry") =>
                /\ queue' = Append(Tail(queue), item[t])
                /\ Len(queue') = Len(queue)
                /\ dumped' = dumped \cup {Head(queue)}
       /\ dumped' \cap Range(delivered') = {}]_vars

\* after an eviction (nothing was cleared) a pull has returned an item
EvictionRemovesOldestWitness ==
    /\ action_if_full = "DumpFirstEntry"
    /\ dumped # {}
    /\ deleted = {}
    /\ returned.op \in {"pull", "tpull"}
    /\ returned.item # NoItem

(* ------------------------------- C7 ------------------------------------ *)
\* C7: push returns SUCCESS exactly when the queue was not full when it
\* was called and FULL whenever it was full, under both policies, also
\* when DumpFirstEntry has inserted the new item.
PushStatus ==
    [][\A t \in DOMAIN pc :
          PushReturns(t) =>
              /\ returned'.op = "push" /\ returned'.thread = t
              /\ returned'.value = "SUCCESS" <=> ~AtCapacity
              /\ returned'.value = "FULL" <=> AtCapacity]_vars

\* a push has just returned FULL and its item is the newest in the queue
PushStatusWitness ==
    /\ action_if_full = "DumpFirstEntry"
    /\ returned.op = "push"
    /\ returned.value = "FULL"
    /\ queue # <<>>
    /\ queue[Len(queue)] = inserted[Len(inserted)]
    /\ item[returned.thread] = NoItem

(* ------------------------------- C8 ------------------------------------ *)
\* the consumer is suspended in pull() (or woken, without the mutex yet)
\* and a push has put x at the head of the queue that was empty
BlockedWith(x) ==
    /\ pc[TheConsumer] \in {"pull_wait", "pull_woken"}
    /\ queue # <<>>
    /\ Head(queue) = x

\* C8 as stated: the only consumer, blocked in pull() on an empty queue
\* into which a push inserts x, eventually returns with x.
BlockedPullReturnsPushed ==
    \A x \in AllItems : BlockedWith(x) ~> (x \in Range(delivered))

\* C8, amended: it eventually returns with an item; the item is x unless,
\* under DumpFirstEntry, a later push has evicted x before the consumer
\* had the mutex again.
BlockedPullReturnsPushedOrDumped ==
    \A x \in AllItems :
        /\ BlockedWith(x) ~>
              (pc[TheConsumer] = "idle" /\ returned.op = "pull"
                  /\ returned.item # NoItem)
        /\ BlockedWith(x) ~>
              \/ x \in Range(delivered)
              \/ x \in dumped /\ action_if_full = "DumpFirstEntry"

\* the push into the empty queue has just woken the blocked consumer
BlockedPullReturnsPushedOrDumpedWitness ==
    /\ pc[TheConsumer] = "pull_woken"
    /\ returned.op = "push"
    /\ returned.value = "SUCCESS"
    /\ Len(queue) = 1
    /\ condv = {}

(* ------------------------------- C9 ------------------------------------ *)
\* C9: a timed pull suspended on a queue that stays empty returns TIMEOUT
\* (it does not stay suspended, and does not return SUCCESS), and its
\* return leaves the queue empty and unchanged.
TimedPullTimesOut ==
    /\ (pc[TheConsumer] = "tpull_wait") ~>
          \/ returned.op = "tpull" /\ returned.value = "TIMEOUT"
          \/ queue # <<>>
    /\ [][(pc[TheConsumer] = "tpull_timeout" /\ pc'[TheConsumer] = "idle") =>
             (returned'.value = "TIMEOUT" /\ UNCHANGED shared)]_vars
    /\ [][(pc[TheConsumer] = "tpull" /\ pc'[TheConsumer] = "idle") =>
             (returned'.value = "SUCCESS" /\ queue # <<>>)]_vars

\* a timed pull has just timed out on a queue that was never pushed to
TimedPullTimesOutWitness ==
    /\ returned.op = "tpull"
    /\ returned.value = "TIMEOUT"
    /\ inserted = <<>>
    /\ queue = <<>>

(* ------------------------------- C10 ----------------------------------- *)
\* C10: at the moment a timed pull returns TIMEOUT the buffer is empty.
TimeoutOnlyWhenEmpty ==
    (returned.op = "tpull" /\ returned.value = "TIMEOUT") => queue = <<>>

(* ------------------------------- C11 ----------------------------------- *)
\* the sum of get_size_seconds() over the items of q
RECURSIVE SumSeconds(_)
SumSeconds(q) == IF q = <<>> THEN 0 ELSE seconds[Head(q)] + SumSeconds(Tail(q))

WeightedCapacityBound ==
    [][\A t \in DOMAIN pc :
          PushReturns(t) =>
              \/ size_seconds' <= max_size_seconds'
              \/ Len(queue') = 1]_vars

\* C12, amended: a push that returns SUCCESS found the extent below the
\* limit and adds the size of its item, so the extent ends below the limit
\* plus the size of that item; a push that returns FULL found the extent at
\* or above the limit and leaves buffer and extent unchanged under Nothing,
\* and under DumpFirstEntry changes the extent by the size of its item less
\* the size of the evicted head, the number of items staying the same.
PushExtentBound ==
    [][\A t \in DOMAIN pc :
          PushReturns(t) =>
              /\ returned'.value = "SUCCESS" =>
                    /\ size_seconds < max_size_seconds
                    /\ size_seconds' = size_seconds + seconds[item[t]]
                    /\ size_seconds' < max_size_seconds' + seconds[item[t]]
              /\ returned'.value = "FULL" =>
                    /\ size_seconds >= max_size_seconds
                    /\ action_if_full = "Nothing" =>
                          (size_seconds' = size_seconds /\ queue' = queue)
                    /\ action_if_full = "DumpFirstEntry" =>
                          /\ size_seconds' =
                                 size_seconds - seconds[Head(queue)] + seconds[item[t]]
                          /\ Len(queue') = Len(queue)]_vars

\* a push has just returned SUCCESS: two items are resident and the extent
\* is above the limit
PushExtentBoundWitness ==
    /\ dynamic_type = "sFIFO"
    /\ returned.op = "push"
    /\ returned.value = "SUCCESS"
    /\ Len(queue) = 2
    /\ size_seconds > max_size_seconds

(* ------------------------------- C13 ----------------------------------- *)
\* the capacity is below what the queue holds: fewer than its items in a
\* FIFO, less than its extent in an sFIFO
CapacityBelowContent ==
    IF dynamic_type = "sFIFO"
    THEN max_size_seconds < size_seconds
    ELSE max_size < Len(queue)

\* C13: set_max_size() and set_max_size_seconds(), also to a value below
\* what the queue holds, remove no item and change nothing but the
\* capacity; a push that finds the capacity below the content returns FULL
\* and applies the policy: under Nothing buffer and extent stay as they
\* are, under DumpFirstEntry the head is popped and the item appended.
CapacityMutation ==
    [][\A t \in DOMAIN pc :
          /\ (pc[t] = "set_max_size" /\ pc'[t] = "idle") =>
                UNCHANGED <<queue, inserted, delivered, rejected, dumped, deleted,
                            size_seconds, max_size_seconds>>
          /\ (pc[t] = "set_max_size_seconds" /\ pc'[t] = "idle") =>
                UNCHANGED <<queue, inserted, delivered, rejected, dumped, deleted,
                            size_seconds, max_size>>
          /\ (PushReturns(t) /\ CapacityBelowContent) =>
                /\ returned'.value = "FULL"
                /\ action_if_full = "Nothing" =>
                      (queue' = queue /\ size_seconds' = size_seconds)
                /\ action_if_full = "DumpFirstEntry" =>
                      (queue' = Append(Tail(queue), item[t])
                          /\ dumped' = dumped \cup {Head(queue)})]_vars

\* the capacity of a FIFO was set below the number of its items, and the
\* push that followed has evicted the head and appended its item
CapacityMutationWitness ==
    /\ dynamic_type = "FIFO"
    /\ action_if_full = "DumpFirstEntry"
    /\ returned.op = "push"
    /\ returned.value = "FULL"
    /\ Len(queue) = 2
    /\ max_size = 1
    /\ Cardinality(dumped) = 1
    /\ queue[Len(queue)] = inserted[Len(inserted)]

ClearReleasesAll ==
    [][\A t \in DOMAIN pc :
          (pc[t] = "clear" /\ pc'[t] = "idle") =>
              Range(queue) \subseteq deleted']_vars

(* ------------------------------- C16 ----------------------------------- *)
\* C16: every item that was inserted is in exactly one place: resident in
\* the queue, handed to one caller by one pull, or removed by eviction or
\* clear; an item removed by eviction or clear was deleted by the queue,
\* and no item both went to a caller and was deleted.
SingleExit ==
    \A it \in Range(inserted) :
        /\ Count(it, queue) + Count(it, delivered)
              + (IF it \in dumped THEN 1 ELSE 0) = 1
        /\ it \in dumped => it \in deleted
        /\ it \in deleted => it \notin Range(delivered)

(* ------------------------------- C17 ----------------------------------- *)
\* C17: is_full() of a FIFO returns true exactly when the number of items
\* is at least _max_size; is_full() of an sFIFO returns true exactly when
\* _size_seconds is at least _max_size_seconds, whatever the number of
\* items (capacities are positive).
IsFullReportsHook ==
    returned.op = "is_full" =>
        returned.value = (IF dynamic_type = "sFIFO"
                          THEN size_seconds >= max_size_seconds
                          ELSE Len(queue) >= max_size)

\* is_full() of an sFIFO has just returned true with one item resident,
\* fewer items than the number of seconds of the limit
IsFullReportsHookWitness ==
    /\ dynamic_type = "sFIFO"
    /\ returned.op = "is_full"
    /\ returned.value = TRUE
    /\ Len(queue) = 1
    /\ max_size_seconds = 2

(* ------------------------------- C18 ----------------------------------- *)
\* where a thread is between taking the mutex on entry of a member
\* function (or on return from a wait) and its return or its wait
CriticalSection ==
    {"push", "pull", "tpull", "tpull_timeout", "size", "set_max_size",
     "get_max_size", "is_full", "clear", "size_seconds",
     "set_max_size_seconds", "get_max_size_seconds"}

InCritical(t) == pc[t] \in CriticalSection

TimedPull_positions ==
    {"tpull", "tpull_wait", "tpull_woken", "tpull_expired", "tpull_timeout"}

\* thread t takes a step of its timed pull other than the pop that returns
\* SUCCESS (being woken is a step of the push that signals)
TimedPullStepWithoutPop(t) ==
    /\ pc[t] \in TimedPull_positions
    /\ pc'[t] # pc[t]
    /\ ~(pc[t] = "tpull" /\ pc'[t] = "idle")
    /\ ~(pc[t] = "tpull_wait" /\ pc'[t] = "tpull_woken")

\* C19: a timed pull returns TIMEOUT only from its timed-out wait, never
\* from the step that pops, and no step of it but that pop changes the
\* buffer, the extent or the capacity, whatever the other threads do in
\* between.
TimedOutNoSideEffect ==
    [][\A t \in DOMAIN pc :
          /\ TimedPullStepWithoutPop(t) =>
                UNCHANGED <<queue, size_seconds, max_size, max_size_seconds,
                            inserted, delivered, rejected, dumped, deleted>>
          /\ (pc[t] = "tpull" /\ pc'[t] = "idle") => returned'.value = "SUCCESS"
          /\ (pc[t] \in TimedPull_positions /\ pc'[t] = "idle"
                 /\ returned'.value = "TIMEOUT") => pc[t] = "tpull_timeout"]_vars

\* a timed pull on an sFIFO has just returned TIMEOUT although an item was
\* pushed meanwhile: the item is resident and counted in the extent
TimedOutNoSideEffectWitness ==
    /\ dynamic_type = "sFIFO"
    /\ returned.op = "tpull"
    /\ returned.value = "TIMEOUT"
    /\ Len(queue) = 1
    /\ size_seconds = 2
    /\ delivered = <<>>

NoLostWakeup ==
    \A c \in PullingThreads :
        (pc[c] = "pull_wait" /\ queue # <<>>) ~>
            (pc[c] # "pull_wait" \/ queue = <<>>)

(* ------------------------------- C22 ----------------------------------- *)
\* C22: a push under DumpFirstEntry into a full queue on which a consumer
\* is suspended wakes one suspended consumer, as a push returning SUCCESS
\* does.
EvictionSignals ==
    [][(PushReturns(PushingThread) /\ AtCapacity
           /\ action_if_full = "DumpFirstEntry" /\ condv # {}) =>
              \E c \in condv : condv' = condv \ {c}]_vars

(* ------------------------------- C23 ----------------------------------- *)
\* C23: a consumer woken in pull() takes the mutex and tests the queue
\* again before anything else; if it finds the queue empty it is suspended
\* again; a pull removes an item only while it holds the mutex and the
\* queue is not empty, it returns the head, and no item is returned to two
\* consumers.
WakeAndRecheck ==
    /\ [][\A c \in PullingThreads :
            /\ (pc[c] = "pull_woken" /\ pc'[c] # pc[c]) =>
                  (pc'[c] = "pull" /\ mutex' = c /\ UNCHANGED queue)
            /\ (pc[c] = "tpull_woken" /\ pc'[c] # pc[c]) =>
                  (pc'[c] \in {"tpull", "tpull_expired"} /\ UNCHANGED queue)
            /\ (pc[c] \in {"pull", "tpull"} /\ pc'[c] # pc[c] /\ queue = <<>>) =>
                  (pc'[c] \in {"pull_wait", "tpull_wait"} /\ c \in condv'
                      /\ UNCHANGED <<queue, delivered>>)
            /\ (pc[c] \in {"pull", "tpull"} /\ pc'[c] = "idle") =>
                  /\ mutex = c
                  /\ queue # <<>>
                  /\ returned'.item = Head(queue)
                  /\ queue' = Tail(queue)
            /\ (pc'[c] = pc[c] /\ ~(\E d \in PullingThreads :
                                      pc[d] \in {"pull", "tpull"} /\ pc'[d] = "idle")) =>
                  delivered' = delivered]_vars
    /\ [](\A it \in Range(delivered) : Count(it, delivered) = 1)

\* both consumers were woken from pull() for the one item pushed (one by
\* the signal, one spuriously); one has returned it, the other is still to
\* take the mutex and will find the queue empty
WakeAndRecheckWitness ==
    /\ Len(inserted) = 1
    /\ delivered = inserted
    /\ queue = <<>>
    /\ returned.op = "pull"
    /\ \E c \in PullingThreads : pc[c] = "pull_woken"

(* ------------------------------- C24 ----------------------------------- *)
\* C24: the time a timed pull has been suspended since it was called is at
\* most its timeout.
DeadlineBound ==
    \A t \in DOMAIN pc :
        pc[t] \in TimedPull_positions => suspended <= timeout

(* ------------------------------- C28 ----------------------------------- *)
\* C28: a timed pull that finds the queue non-empty when it has the mutex
\* returns SUCCESS with the head without being suspended, whatever its
\* timeout (0 too); it returns TIMEOUT only out of a wait, and it waits
\* only after it has found the queue empty.
TimedPullNonEmpty ==
    [][\A t \in DOMAIN pc :
          /\ (pc[t] = "tpull" /\ pc'[t] # pc[t] /\ queue # <<>>) =>
                /\ pc'[t] = "idle"
                /\ returned'.op = "tpull"
                /\ returned'.value = "SUCCESS"
                /\ returned'.item = Head(queue)
                /\ UNCHANGED <<waited, suspended>>
          /\ (pc[t] # "tpull_wait" /\ pc'[t] = "tpull_wait") =>
                (pc[t] = "tpull" /\ queue = <<>>)
          /\ (pc[t] # "tpull_woken" /\ pc'[t] = "tpull_woken") =>
                pc[t] = "tpull_wait"
          /\ (pc[t] # "tpull_expired" /\ pc'[t] = "tpull_expired") =>
                pc[t] \in {"tpull_wait", "tpull_woken"}
          /\ (pc[t] # "tpull_timeout" /\ pc'[t] = "tpull_timeout") =>
                pc[t] = "tpull_expired"
          /\ (pc[t] \in TimedPull_positions /\ pc'[t] = "idle"
                 /\ returned'.value = "TIMEOUT") => pc[t] = "tpull_timeout"]_vars

\* a timed pull with timeout 0 has just returned SUCCESS with the item
\* that was in the queue, without having waited
TimedPullNonEmptyWitness ==
    /\ returned.op = "tpull"
    /\ returned.value = "SUCCESS"
    /\ returned.item = inserted[1]
    /\ timeout = 0
    /\ suspended = 0
    /\ Len(delivered) = 1

(* ------------------------------- C25 ----------------------------------- *)
Suspended(t) == pc[t] \in {"pull_wait", "tpull_wait"}

\* C25: a thread suspended in a pull does not hold the mutex, and the other
\* thread is never held up by it: when idle it can enter push, size,
\* is_full, clear, set_max_size and get_max_size, and once it has entered
\* one of them it can run it to its return.
SuspendedPullReleasesLock ==
    \A t \in Threads : Suspended(t) =>
        /\ mutex # t
        /\ \A u \in Threads \ {t} :
              /\ pc[u] = "idle" =>
                    /\ ENABLED SizeCall(u)
                    /\ ENABLED IsFullCall(u)
                    /\ ENABLED ClearCall(u)
                    /\ ENABLED SetMaxSizeCall(u)
                    /\ ENABLED GetMaxSizeCall(u)
                    /\ (item[u] # NoItem \/ Cardinality(Made) < MaxItems) =>
                          ENABLED PushCall(u)
              /\ pc[u] = "push" => ENABLED Push(u)
              /\ pc[u] = "size" => ENABLED Size(u)
              /\ pc[u] = "is_full" => ENABLED IsFull(u)
              /\ pc[u] = "clear" => ENABLED Clear(u)
              /\ pc[u] = "get_max_size" => ENABLED GetMaxSize(u)
              /\ pc[u] = "set_max_size" =>
                    \A size \in Capacities : ENABLED SetMaxSize(u, size)

\* thread 1 is suspended in pull() and thread 2 has just returned from
\* clear()
SuspendedPullReleasesLockWitness ==
    /\ pc[1] = "pull_wait"
    /\ 1 \in condv
    /\ returned.thread = 2
    /\ returned.op = "clear"

(* ------------------------------- C26 ----------------------------------- *)
\* C26: under DumpFirstEntry, whenever a push finds the queue full there is
\* a front item to pop, whatever _max_size is.
EvictionFindsHead ==
    \A t \in DOMAIN pc :
        (pc[t] = "push" /\ action_if_full = "DumpFirstEntry"
            /\ is_full_helper(queue, max_size)) => queue # <<>>

(* ------------------------------- C30 ----------------------------------- *)
\* C30: is_full() returns the integer comparison of the number of items
\* with _max_size, for every int _max_size, the negative ones too.
IsFullSignedComparison ==
    returned.op = "is_full" =>
        (returned.value <=> Len(queue) >= max_size)

CapacityFrame ==
    [][/\ max_size' # max_size =>
             \E t \in DOMAIN pc : pc[t] = "set_max_size" /\ pc'[t] = "idle"
       /\ max_size_seconds' # max_size_seconds =>
             \E t \in DOMAIN pc : pc[t] = "set_max_size_seconds" /\ pc'[t] = "idle"
       /\ \A t \in DOMAIN pc :
             /\ (pc[t] = "get_max_size" /\ pc'[t] = "idle") =>
                   /\ returned'.op = "get_max_size"
                   /\ returned'.value = max_size
                   /\ UNCHANGED <<max_size, max_size_seconds>>
             /\ (pc[t] = "get_max_size_seconds" /\ pc'[t] = "idle") =>
                   /\ returned'.op = "get_max_size_seconds"
                   /\ returned'.value = max_size_seconds
                   /\ UNCHANGED <<max_size, max_size_seconds>>]_vars

\* get_max_size() has just returned 1 with two items in the queue: the
\* value of a set_max_size(1) that came after the pushes
CapacityFrameWitness ==
    /\ dynamic_type = "FIFO"
    /\ returned.op = "get_max_size"
    /\ returned.value = 1
    /\ Len(queue) = 2
====
